---- MODULE Spec2Model ----
(***************************************************************************)
(* Client side of the maestro-builder generation pipeline:                 *)
(*   - ApiService.streamGenerateMessage / sendMessage / getAsyncResult     *)
(*     (src/src/services/api.ts)                                           *)
(*   - App.handleSendMessage and its stream event handler                  *)
(*     (src/src/App.tsx), and the polling variant (src/unnamed/part_002)   *)
(*                                                                         *)
(* Text is modelled as a sequence of units.  A unit of the response body   *)
(* is a record [k, ev]: a line break, a blank, the opening part of a JSON  *)
(* object (carrying the event it encodes), its closing brace, or junk.     *)
(* A YAML document is a sequence of string tokens.                         *)
(***************************************************************************)
EXTENDS Integers, Sequences, FiniteSets, TLC

\* ------------------------------------------------------------------ bounds
\* number of non-terminal events a backend stream carries before its
\* terminal event
MaxProgress == 2
\* number of lines of a raw (possibly malformed) response body
MaxLines == 3
\* number of messages the two log streams deliver while a request runs
MaxLogLines == 2
\* number of status updates the backend records for one request
MaxUpdates == 1
\* number of status fetches one polling session issues
MaxStatusFetches == 2
\* number of things the user does in one session: instructions submitted,
\* sidebar operations and saves in the editor of the YAML panel
MaxOperations == 3
\* length of the texts handed to computeDiffLines and renderDiff
MaxDiffLen == 3
\* length of the contents typed into or opened in the editor of the YAML panel
MaxContentLen == 3

\* --------------------------------------------------------------- constants
\* the polling variant gives up after this many result polls
maxAttempts == 120

\* ------------------------------------------------------------ text helpers
Last(s) == s[Len(s)]
Front(s) == SubSeq(s, 1, Len(s) - 1)

RECURSIVE SeqsUpTo(_, _)
SeqsUpTo(S, n) ==
  IF n = 0 THEN { <<>> }
  ELSE LET shorter == SeqsUpTo(S, n - 1)
       IN shorter \cup { Append(s, x) : s \in { t \in shorter : Len(t) = n - 1 }, x \in S }

\* ------------------------------------------------------- YAML documents
\* tokens of a document: "fence" is a code fence (three backticks), "yaml" the
\* word following an opening fence, "nl" a line break and "sp" a blank;
\* anything else is text
IsYamlSpace(t) == t \in { "nl", "sp" }

RECURSIVE trimLeftTokens(_)
trimLeftTokens(s) ==
  IF s # <<>> /\ IsYamlSpace(Head(s)) THEN trimLeftTokens(Tail(s)) ELSE s

RECURSIVE trimRightTokens(_)
trimRightTokens(s) ==
  IF s # <<>> /\ IsYamlSpace(Last(s)) THEN trimRightTokens(Front(s)) ELSE s

trimTokens(s) == trimRightTokens(trimLeftTokens(s))

\* content.replace of the pattern  fence yaml nl?  |  nl? fence  (global): a
\* left-to-right scan, the first alternative tried first at every position
RECURSIVE stripFences(_)
stripFences(s) ==
  IF s = <<>> THEN <<>>
  ELSE IF Head(s) = "fence" /\ Len(s) >= 2 /\ s[2] = "yaml"
       THEN IF Len(s) >= 3 /\ s[3] = "nl"
            THEN stripFences(SubSeq(s, 4, Len(s)))
            ELSE stripFences(SubSeq(s, 3, Len(s)))
  ELSE IF Head(s) = "nl" /\ Len(s) >= 2 /\ s[2] = "fence"
       THEN stripFences(SubSeq(s, 3, Len(s)))
  ELSE IF Head(s) = "fence"
       THEN stripFences(Tail(s))
  ELSE <<Head(s)>> \o stripFences(Tail(s))

formatYamlContent(content) ==
  LET formatted == trimTokens(stripFences(content))
  IN IF formatted # <<>> /\ Last(formatted) = "nl"
     THEN formatted
     ELSE Append(formatted, "nl")

AgentsName == "agents.yaml"
WorkflowName == "workflow.yaml"
ArtifactNames == { AgentsName, WorkflowName }


\* ------------------------------------------------------------ stream events
\* StreamEvent (api.ts): the variants the backend emits
EvChatId(c) == [type |-> "chat_id", chat_id |-> c]
EvStatus(m) == [type |-> "status", message |-> m]
EvArtifact(t, name, content) ==
  [type |-> t, file |-> [name |-> name, content |-> content]]
EvAiOutput(source, line) == [type |-> "ai_output", source |-> source, line |-> line]
EvFinal(response, yaml_files, chat_id) ==
  [type |-> "final", response |-> response, yaml_files |-> yaml_files, chat_id |-> chat_id]
EvError(m) == [type |-> "error", message |-> m]
EvDone == [type |-> "done"]

\* ChatResponse.response: raw is the text, final_prompt the value of that key
\* when the text is a JSON object having one ("" otherwise)
RespPlain == [raw |-> <<"r1">>, final_prompt |-> ""]
RespJson == [raw |-> <<"{final_prompt: p2}">>, final_prompt |-> "p2"]

\* documents the backend produces
DocA1 == <<"a1", "nl">>
DocA2 == <<"a2">>
DocW1 == <<"w1", "nl">>
DocFenced == <<"fence", "yaml", "nl", "w2", "nl", "fence">>

File(name, content) == [name |-> name, content |-> content]

\* the terminal results (response, yaml_files, chat_id) a backend returns
TerminalResults ==
  { [response |-> RespPlain,
     yaml_files |-> <<File(AgentsName, DocA1), File(WorkflowName, DocW1)>>,
     chat_id |-> "c1"],
    [response |-> RespJson,
     yaml_files |-> <<File(AgentsName, DocA2), File(WorkflowName, DocFenced)>>,
     chat_id |-> "c1"] }

FinalOf(r) == EvFinal(r.response, r.yaml_files, r.chat_id)

ProgressEvents ==
  { EvChatId("c1"),
    EvStatus("s1"),
    EvArtifact("agents_yaml", AgentsName, DocA1),
    EvArtifact("agents_yaml", AgentsName, DocA2),
    EvArtifact("workflow_yaml", WorkflowName, DocW1),
    EvAiOutput("agents", "l1") }

TerminalEvents == { FinalOf(r) : r \in TerminalResults } \cup { EvError("boom") }

IsTerminal(e) == e.type \in { "final", "error" }

\* ------------------------------------------------------ response body text
NL == [k |-> "nl"]
SP == [k |-> "sp"]
Open(e) == [k |-> "open", ev |-> e]
Close == [k |-> "close"]
Junk == [k |-> "junk"]

\* JSON.stringify(event): one object, no line break inside
Encode(e) == << Open(e), Close >>

\* JSON.parse(text): the value, or a SyntaxError
ParseOk(text) == Len(text) = 2 /\ text[1].k = "open" /\ text[2].k = "close"
ParseValue(text) == text[1].ev

\* String.prototype.trim
RECURSIVE trimLeft(_)
trimLeft(s) == IF s # <<>> /\ Head(s).k \in { "sp", "nl" } THEN trimLeft(Tail(s)) ELSE s

RECURSIVE trimRight(_)
trimRight(s) == IF s # <<>> /\ Last(s).k \in { "sp", "nl" } THEN trimRight(Front(s)) ELSE s

trim(s) == trimRight(trimLeft(s))

\* buffer.indexOf('\n'), 1-based; 0 when there is none
RECURSIVE indexOfNL(_)
indexOfNL(s) ==
  IF s = <<>> THEN 0
  ELSE IF Head(s).k = "nl" THEN 1
  ELSE LET r == indexOfNL(Tail(s)) IN IF r = 0 THEN 0 ELSE r + 1

\* one line of the read loop: the events it hands to onEvent (none for an
\* empty line or a line JSON.parse rejects)
LineEvents(rawLine) ==
  LET line == trim(rawLine)
  IN IF line = <<>> THEN <<>>
     ELSE IF ParseOk(line) THEN << ParseValue(line) >>
     ELSE <<>>

\* DrainLines giving up at the first line that does not parse, dropping the
\* rest of the buffer
RECURSIVE DrainLinesAbortOnBad(_)
DrainLinesAbortOnBad(buffer) ==
  LET lineBreakIndex == indexOfNL(buffer)
  IN IF lineBreakIndex = 0
     THEN [events |-> <<>>, rest |-> buffer]
     ELSE LET line == trim(SubSeq(buffer, 1, lineBreakIndex - 1))
          IN IF line # <<>> /\ ~ParseOk(line)
             THEN [events |-> <<>>, rest |-> <<>>]
             ELSE LET more == DrainLinesAbortOnBad(SubSeq(buffer, lineBreakIndex + 1, Len(buffer)))
                  IN [events |-> LineEvents(line) \o more.events, rest |-> more.rest]

\* the inner while loop of streamGenerateMessage: takes every complete line
\* off the buffer; events are the parsed events in order, rest the new buffer
RECURSIVE DrainLines(_)
DrainLines(buffer) ==
  LET lineBreakIndex == indexOfNL(buffer)
  IN IF lineBreakIndex = 0
     THEN [events |-> <<>>, rest |-> buffer]
     ELSE LET line == SubSeq(buffer, 1, lineBreakIndex - 1)
              more == DrainLines(SubSeq(buffer, lineBreakIndex + 1, Len(buffer)))
          IN [events |-> LineEvents(line) \o more.events, rest |-> more.rest]

\* AppendChunk forgetting what was buffered
AppendChunkReset(buffer, chunk) == chunk

\* buffer += decoder.decode(value, {stream: true})
AppendChunk(buffer, chunk) == buffer \o chunk

\* LastLineEvents throwing the unterminated last line away unparsed
LastLineIgnored(buffer) == <<>>

\* after the read loop: the unterminated last line, parsed if it can be
LastLineEvents(buffer) ==
  LET last == trim(buffer)
  IN IF last = <<>> THEN <<>>
     ELSE IF ParseOk(last) THEN << ParseValue(last) >>
     ELSE <<>>

\* this.currentChatId after the read loop handled these events
RECURSIVE ChatIdAfter(_, _)
ChatIdAfter(id, events) ==
  IF events = <<>> THEN id
  ELSE ChatIdAfter(IF Head(events).type \in { "final", "chat_id" }
                   THEN Head(events).chat_id ELSE id,
                   Tail(events))


\* ------------------------------------------------------------ App (App.tsx)
Null == "null"

\* message content is a sequence of pieces joined by line breaks; a piece
\* records the kind of text the code built and the text it was built from
Piece(kind, text) == [kind |-> kind, text |-> text]
Message(id, role, content) == [id |-> id, role |-> role, content |-> content]

\* what the running handleSendMessage closed over, and its locals
VARIABLE req

\* message ids: Date.now() of the submission, +1 for the log message, and a
\* later Date.now() + 2 for the final one; "1" is the greeting. An id is the
\* number of the submission whose clock reading it was made from (0 when
\* none) and the text of the expression.
Id(n, expr) == << n, expr >>
WelcomeId == Id(0, "1")
UserId == Id(req.n, "t")
assistantLogId == Id(req.n, "t+1")
FinalId == Id(req.n, "t'+2")

WelcomeMessage == Message(WelcomeId, "assistant", << Piece("text", <<"Hello!">>) >>)

PlaceholderAgents == <<"# Agents configuration will be generated here">>
PlaceholderWorkflow == <<"# Workflow configuration will be generated here">>

InitialYamlFiles ==
  << File(AgentsName, PlaceholderAgents), File(WorkflowName, PlaceholderWorkflow) >>

\* the instructions a user submits: text and the keywords
\* getFallbackResponse looks for in it
Instructions ==
  { [text |-> "build an agent", agent |-> TRUE, workflow |-> FALSE],
    [text |-> "hello", agent |-> FALSE, workflow |-> FALSE] }

\* mergeYaml keeping the content an existing entry already has
mergeYamlKeepExisting(prev, incoming) ==
  IF \E i \in DOMAIN prev : prev[i].name = incoming.name
  THEN prev
  ELSE Append(prev, File(incoming.name, incoming.content))

\* mergeYaml's updater: replace the content of the entry of that name, or
\* append a new entry when there is none
mergeYaml(prev, incoming) ==
  IF \E i \in DOMAIN prev : prev[i].name = incoming.name
  THEN [i \in DOMAIN prev |->
          IF prev[i].name = incoming.name
          THEN [prev[i] EXCEPT !.content = incoming.content]
          ELSE prev[i]]
  ELSE Append(prev, File(incoming.name, incoming.content))

\* files.forEach(file => mergeYaml(file))
RECURSIVE mergeAll(_, _)
mergeAll(prev, files) ==
  IF files = <<>> THEN prev
  ELSE mergeAll(mergeYaml(prev, Head(files)), Tail(files))

\* setMessages(prev => prev.map(m => m.id === id ? {...m, content + piece} : m))
appendToLog(msgs, id, piece) ==
  [i \in DOMAIN msgs |->
     IF msgs[i].id = id
     THEN [msgs[i] EXCEPT !.content = Append(@, piece)]
     ELSE msgs[i]]

\* the text of the assistant message built from a final response
parsedText(response) ==
  IF response.final_prompt # "" THEN << response.final_prompt >> ELSE response.raw

\* onErrorEvent showing nothing
onErrorEventSilent(msgs, event) == msgs

\* the 'error' branch of the stream event handler
onErrorEvent(msgs, event) ==
  appendToLog(msgs, assistantLogId, Piece("error", << event.message >>))

\* the 'final' branch of the stream event handler; closureChatId is the
\* currentChatId the handler closed over when the request was submitted
onFinalEvent(st, event, closureChatId) ==
  [messages |-> Append(st.messages,
                       Message(FinalId, "assistant",
                               << Piece("text", parsedText(event.response)) >>)),
   yamlFiles |-> mergeAll(st.yamlFiles, event.yaml_files),
   currentChatId |-> IF event.chat_id # closureChatId
                     THEN event.chat_id ELSE st.currentChatId]

\* handleSendMessage's onEvent, on the App state st = [messages, yamlFiles,
\* currentChatId]
onEvent(st, event, closureChatId) ==
  CASE event.type = "status" ->
         [st EXCEPT !.messages =
            appendToLog(@, assistantLogId, Piece("status", << event.message >>))]
    [] event.type = "chat_id" ->
         IF event.chat_id # closureChatId
         THEN [st EXCEPT !.currentChatId = event.chat_id]
         ELSE st
    [] event.type \in { "agents_yaml", "workflow_yaml" } ->
         [st EXCEPT !.yamlFiles = mergeYaml(@, event.file)]
    [] event.type = "ai_output" ->
         [st EXCEPT !.messages =
            appendToLog(@, assistantLogId, Piece("line", << event.line >>))]
    [] event.type = "final" -> onFinalEvent(st, event, closureChatId)
    [] event.type = "error" ->
         [st EXCEPT !.messages = onErrorEvent(@, event)]
    [] OTHER -> st

\* the handler applied to a sequence of events, in order
RECURSIVE onEvents(_, _, _)
onEvents(st, events, closureChatId) ==
  IF events = <<>> THEN st
  ELSE onEvents(onEvent(st, Head(events), closureChatId), Tail(events), closureChatId)

\* the catch block of handleSendMessage
onCaught(msgs) ==
  appendToLog(msgs, assistantLogId, Piece("sorry", <<"Sorry, I encountered an error">>))

\* what the log streams deliver: lines of either source, and data without a
\* line; request names the run that wrote the line to the source, which the
\* data handed to the handler does not carry
LogData ==
  { [type |-> "log", source |-> "agents", line |-> "g1", request |-> "R"],
    [type |-> "log", source |-> "workflow", line |-> "g1", request |-> "R"],
    [type |-> "log", source |-> "agents", line |-> "", request |-> "R"] }

\* a line written to the agents source by a run of another client while
\* this request's subscription (source=agents, from_start=false) is open
OtherRequestLogData ==
  { [type |-> "log", source |-> "agents", line |-> "g2", request |-> "other"] }

\* onLogData adding the line to every assistant message
onLogDataEveryMessage(msgs, data) ==
  [i \in DOMAIN msgs |->
     IF msgs[i].role = "assistant"
     THEN [msgs[i] EXCEPT !.content = Append(@, Piece("line", << data.line >>))]
     ELSE msgs[i]]

\* the handler given to streamLogs, for either source
onLogData(msgs, data) ==
  IF data.type = "log" /\ data.line # ""
  THEN appendToLog(msgs, assistantLogId, Piece("line", << data.line >>))
  ELSE msgs

\* ------------------------------------------------- ApiService (api.ts)
\* getFallbackResponse: a reply made up locally from keywords of the message
getFallbackResponse(message) ==
  LET agentFile == File(AgentsName, <<"# Agents configuration generated from conversation", message.text, "nl">>)
      workflowFile == File(WorkflowName, <<"# Workflow configuration generated from conversation", message.text, "nl">>)
      picked == (IF message.agent THEN << agentFile >> ELSE <<>>)
                  \o (IF message.workflow THEN << workflowFile >> ELSE <<>>)
  IN [response |-> [raw |-> <<"I understand you want to:", message.text>>, final_prompt |-> ""],
      yaml_files |-> IF picked = <<>>
                     THEN << File(AgentsName, <<"# Agents configuration will be generated here", "# Example:", "nl">>),
                             File(WorkflowName, <<"# Workflow configuration will be generated here", "# Example:", "nl">>) >>
                     ELSE picked,
      chat_id |-> "fallback-session"]

\* sendMessage / getAsyncResult on a successful reply: every file's content
\* goes through formatYamlContent
formatFiles(files) ==
  [i \in DOMAIN files |-> [files[i] EXCEPT !.content = formatYamlContent(@)]]

ChatResponseOf(data) ==
  [response |-> data.response,
   yaml_files |-> formatFiles(data.yaml_files),
   chat_id |-> data.chat_id]

\* FallbackEvents with the two synthesized events in the wrong order
FallbackEventsDoneFirst(fallback) ==
  << EvDone, EvFinal(fallback.response, fallback.yaml_files, fallback.chat_id) >>

\* the events streamGenerateMessage synthesizes from the fallback result
FallbackEvents(fallback) ==
  << EvFinal(fallback.response, fallback.yaml_files, fallback.chat_id), EvDone >>

\* body.chat_id: chatId || this.currentChatId
ChatIdParam(chatId, current) == IF chatId # Null THEN chatId ELSE current


\* ------------------------------------------------------ response bodies
RECURSIVE EncodeLines(_)
EncodeLines(lines) ==
  IF lines = <<>> THEN <<>>
  ELSE Head(lines) \o << NL >> \o EncodeLines(Tail(lines))

\* the lines joined by line breaks; the last line is left unterminated when
\* the body is cut before its line break
BodyOf(lines, terminated) ==
  IF lines = <<>> THEN <<>>
  ELSE IF terminated THEN EncodeLines(lines)
  ELSE Front(EncodeLines(lines))

\* what the backend emits for one request: progress events, then one
\* terminal event followed by done (or nothing more, when it is cut short)
BackendEventSeqs ==
  { p \o t : p \in SeqsUpTo(ProgressEvents, MaxProgress),
             t \in { <<>> } \cup { << e, EvDone >> : e \in TerminalEvents } }

BackendBodies ==
  { BodyOf([i \in DOMAIN es |-> Encode(es[i])], terminated) :
      es \in BackendEventSeqs, terminated \in BOOLEAN }

\* lines of a damaged body: events, empty and blank lines, padded, cut-off
\* and undecodable lines
RawLines ==
  { Encode(EvStatus("s1")),
    <<>>,
    << SP, Open(EvStatus("s2")), Close, SP >>,
    << Open(EvStatus("s3")) >>,
    << Junk >> }

RawBodies ==
  { BodyOf(ls, terminated) :
      ls \in SeqsUpTo(RawLines, MaxLines) \ { <<>> }, terminated \in BOOLEAN }

Bodies == BackendBodies \cup RawBodies

\* bodies with repeated progress events around the artifact-bearing ones
ResultPlain == CHOOSE r \in TerminalResults : r.response = RespPlain
ResultJson == CHOOSE r \in TerminalResults : r.response = RespJson

LogEventSeqs ==
  { << EvStatus("s1"), EvStatus("s1"), EvArtifact("agents_yaml", AgentsName, DocA2),
       EvAiOutput("agents", "l1"), FinalOf(ResultPlain), EvDone >>,
    << EvAiOutput("agents", "l1"), EvArtifact("workflow_yaml", WorkflowName, DocW1),
       EvAiOutput("agents", "l1"), EvError("boom"), EvDone >>,
    << EvStatus("s1"), FinalOf(ResultJson), EvStatus("s1"), EvDone >> }

LogBodies ==
  { BodyOf([i \in DOMAIN es |-> Encode(es[i])], TRUE) : es \in LogEventSeqs }

\* ------------------------------------------------ YamlPanel (YamlPanel.tsx)
\* a text is a sequence of characters: "nl" the line break, "bs" the
\* backslash, "sq" and "dq" the two quote characters, "a" and "n" letters
DiffChars == { "a", "n", "nl", "bs" }
ContentChars == { "a", "n", "nl", "bs", "sq", "dq" }
DiffTexts == SeqsUpTo(DiffChars, MaxDiffLen)
ContentTexts == SeqsUpTo(ContentChars, MaxContentLen)

\* content.replace(/c1c2/g, r) for a pattern of two characters
RECURSIVE replacePair(_, _, _, _)
replacePair(text, c1, c2, r) ==
  IF Len(text) < 2 THEN text
  ELSE IF text[1] = c1 /\ text[2] = c2
       THEN << r >> \o replacePair(SubSeq(text, 3, Len(text)), c1, c2, r)
       ELSE << text[1] >> \o replacePair(Tail(text), c1, c2, r)

\* value.replace(/c/g, r1r2) for a pattern of one character
RECURSIVE replaceChar(_, _, _, _)
replaceChar(text, c, r1, r2) ==
  IF text = <<>> THEN <<>>
  ELSE (IF Head(text) = c THEN << r1, r2 >> ELSE << Head(text) >>)
         \o replaceChar(Tail(text), c, r1, r2)

\* decodeEscaped(content): backslash n, then backslash quote, then backslash
\* double quote
decodeEscaped(content) ==
  replacePair(replacePair(replacePair(content, "bs", "n", "nl"),
                          "bs", "sq", "sq"),
              "bs", "dq", "dq")

\* the encodedContent computed on save from the textarea's value
encodedContent(value) ==
  replaceChar(replaceChar(replaceChar(value, "nl", "bs", "n"),
                          "sq", "bs", "sq"),
              "dq", "bs", "dq")

\* content.trim() !== '', for the only white space of the alphabet
NotBlankText(content) == \E i \in DOMAIN content : content[i] # "nl"

\* data.split(line break)
RECURSIVE splitNl(_)
splitNl(data) ==
  IF \E i \in DOMAIN data : data[i] = "nl"
  THEN LET i == CHOOSE i \in DOMAIN data :
                  data[i] = "nl" /\ \A j \in 1 .. (i - 1) : data[j] # "nl"
       IN << SubSeq(data, 1, i - 1) >> \o splitNl(SubSeq(data, i + 1, Len(data)))
  ELSE << data >>

\* the array computeDiffLines iterates over: the last empty string of split
\* is removed when there is more than one element
splitOf(data) ==
  LET split == splitNl(data)
  IN IF Len(split) > 1 /\ Last(split) = <<>> THEN Front(split) ELSE split

DiffLine(type, text) == [type |-> type, text |-> text]
Diff(op, data) == [op |-> op, data |-> data]

\* what dmp.diff_main followed by dmp.diff_cleanupSemantic may return for
\* (oldText, newText): the library is not part of the repository, so every
\* edit script its documentation allows is an outcome: segments with data,
\* no two neighbours of the same operation, a delete before the insert that
\* replaces it, the equal and delete data making up oldText and the equal
\* and insert data making up newText
RECURSIVE diff_main(_, _, _)
diff_main(oldText, newText, last) ==
  IF oldText = <<>> /\ newText = <<>> THEN { <<>> }
  ELSE
    (IF last # "equal"
     THEN UNION { { << Diff("equal", SubSeq(oldText, 1, k)) >> \o rest :
                      rest \in diff_main(SubSeq(oldText, k + 1, Len(oldText)),
                                         SubSeq(newText, k + 1, Len(newText)),
                                         "equal") } :
                  k \in { n \in 1 .. Len(oldText) :
                            /\ n <= Len(newText)
                            /\ SubSeq(oldText, 1, n) = SubSeq(newText, 1, n) } }
     ELSE {})
    \cup
    (IF last \notin { "delete", "insert" }
     THEN UNION { { << Diff("delete", SubSeq(oldText, 1, k)) >> \o rest :
                      rest \in diff_main(SubSeq(oldText, k + 1, Len(oldText)),
                                         newText, "delete") } :
                  k \in 1 .. Len(oldText) }
     ELSE {})
    \cup
    (IF last # "insert"
     THEN UNION { { << Diff("insert", SubSeq(newText, 1, k)) >> \o rest :
                      rest \in diff_main(oldText,
                                         SubSeq(newText, k + 1, Len(newText)),
                                         "insert") } :
                  k \in 1 .. Len(newText) }
     ELSE {})

\* the loop of computeDiffLines over the segments of diff
RECURSIVE computeDiffLines(_)
computeDiffLines(diff) ==
  IF diff = <<>> THEN <<>>
  ELSE LET split == splitOf(Head(diff).data)
       IN [i \in DOMAIN split |-> DiffLine(Head(diff).op, split[i])]
            \o computeDiffLines(Tail(diff))

\* renderDiff computing the lines whatever oldContent is
renderDiffAlwaysComputed(oldContent, newContent, diff) ==
  LET lines == computeDiffLines(diff)
  IN [banner |-> TRUE,
      rows |-> [i \in DOMAIN lines |->
                  DiffLine(lines[i].type, decodeEscaped(lines[i].text))]]

\* renderDiff(oldContent, newContent): the content alone, without marker or
\* colour, when there is nothing to compare; else one row per line of
\* computeDiffLines under the banner; diff is what the library returned
renderDiff(oldContent, newContent, diff) ==
  IF oldContent = newContent \/ oldContent = <<>>
  THEN LET shown == splitNl(decodeEscaped(newContent))
       IN [banner |-> FALSE,
           rows |-> [i \in DOMAIN shown |-> DiffLine("equal", shown[i])]]
  ELSE LET lines == computeDiffLines(diff)
       IN [banner |-> TRUE,
           rows |-> [i \in DOMAIN lines |->
                       DiffLine(lines[i].type, decodeEscaped(lines[i].text))]]

\* ------------------------------------------------------------------ state
VARIABLES
  messages,        \* App: the message list
  yamlFiles,       \* App: the two artifacts
  isLoading,       \* App
  currentChatId,   \* App
  apiChatId,       \* ApiService.currentChatId
  pc,              \* where the request being handled is suspended
  logsOpen,        \* the two log-stream subscriptions are open
  body,            \* the streaming response body
  pos,             \* how much of it the reader has returned
  buffer,          \* streamGenerateMessage's buffer
  attempts,        \* the polling variant's loop counter
  calls,           \* history: the handler calls made by streamGenerateMessage
  requests,        \* history: the requests issued
  marks,           \* history: what happened to the request
  backendYaml,     \* history: last content received from the backend, by name
  terminalResult,  \* history: the backend's terminal result last handed over
  logged,          \* history: the log-stream data handed to the two log handlers
  isPolling,       \* startStatusPolling: the flag its closures share
  statusPc,        \* startStatusPolling: where its poll function is
  stopTimer,       \* the handler's delayed call of stop is pending
  serverUpdates,   \* the status updates the backend has recorded for the request
  statusFetches,   \* history: the number of status fetches issued
  updateCalls,     \* history: the arguments of the calls of onUpdate
  stopSnapshot,    \* history: statusFetches and updateCalls when stop was called
  uiOp,            \* the sidebar operation that is waiting for its reply
  uiCount,         \* the number of sidebar and editor operations so far
  uiSetId,         \* history: a sidebar operation chose the chat since the last submission
  lastSession,     \* history: what the last loadChatSession got from the backend
  panel            \* the YAML panel: the texts it compares, edits and shows

clientVars == << messages, yamlFiles, isLoading, currentChatId, apiChatId, pc, req,
           logsOpen, body, pos, buffer, attempts, calls, requests, marks,
           backendYaml, terminalResult, logged, isPolling, statusPc, stopTimer,
           serverUpdates, statusFetches, updateCalls, stopSnapshot, uiOp, uiCount,
           uiSetId, lastSession >>

vars == << clientVars, panel >>

appVars == << messages, yamlFiles, isLoading, currentChatId >>
streamVars == << body, pos, buffer >>
\* what the handling of a request itself leaves alone
uiVars == << uiOp, uiCount, uiSetId, lastSession, panel >>
extVars == << logged, uiVars >>
NoOp == [op |-> "none", chatId |-> Null, closureChatId |-> Null]
NoSession == [messages |-> <<>>, yaml_files |-> <<>>, found |-> FALSE]
statusVars == << isPolling, statusPc, stopTimer, serverUpdates, statusFetches,
                updateCalls, stopSnapshot >>
NotStopped == [called |-> FALSE, fetches |-> 0, calls |-> 0]

NoInstruction == [text |-> "", agent |-> FALSE, workflow |-> FALSE]
NoResult == [response |-> [raw |-> <<>>, final_prompt |-> ""], yaml_files |-> <<>>, chat_id |-> Null]

AppState == [messages |-> messages, yamlFiles |-> yamlFiles, currentChatId |-> currentChatId]

OnEventCall(e) == [h |-> "onEvent", ev |-> e]
OnErrorCall == [h |-> "onError"]
OnCompleteCall == [h |-> "onComplete"]

EventCalls(events) == [i \in DOMAIN events |-> OnEventCall(events[i])]

Request(endpoint, content, chat_id) ==
  [endpoint |-> endpoint, content |-> content, chat_id |-> chat_id]

\* the files carried by the events, in order
RECURSIVE FilesOf(_)
FilesOf(events) ==
  IF events = <<>> THEN <<>>
  ELSE (IF Head(events).type \in { "agents_yaml", "workflow_yaml" }
        THEN << Head(events).file >>
        ELSE IF Head(events).type = "final" THEN Head(events).yaml_files
        ELSE <<>>) \o FilesOf(Tail(events))

\* the terminal result of the last final event among the events
RECURSIVE LastResult(_, _)
LastResult(r, events) ==
  IF events = <<>> THEN r
  ELSE LastResult(IF Head(events).type = "final"
                  THEN [response |-> Head(events).response,
                        yaml_files |-> Head(events).yaml_files,
                        chat_id |-> Head(events).chat_id]
                  ELSE r,
                  Tail(events))

EventMarks(events) ==
  IF \E i \in DOMAIN events : events[i].type = "error" THEN { "error_event" } ELSE {}

\* the panel before anything is compared or edited
PanelOff ==
  [pc |-> "off", oldText |-> <<>>, newText |-> <<>>, lines |-> <<>>,
   shown |-> [banner |-> FALSE, rows |-> <<>>],
   content |-> <<>>, textarea |-> <<>>, saved |-> <<>>, reopened |-> <<>>]

InitClient ==
  /\ messages = << WelcomeMessage >>
  /\ yamlFiles = InitialYamlFiles
  /\ isLoading = FALSE
  /\ currentChatId = Null
  /\ apiChatId = Null
  /\ pc = "idle"
  /\ req = [n |-> 0, content |-> NoInstruction, chatId |-> Null, yamlFiles |-> <<>>,
            requestId |-> Null]
  /\ logsOpen = FALSE
  /\ body = <<>>
  /\ pos = 0
  /\ buffer = <<>>
  /\ attempts = 0
  /\ calls = <<>>
  /\ requests = <<>>
  /\ marks = {}
  /\ backendYaml = <<>>
  /\ terminalResult = NoResult
  /\ logged = <<>>
  /\ isPolling = FALSE
  /\ statusPc = "off"
  /\ stopTimer = FALSE
  /\ serverUpdates = <<>>
  /\ statusFetches = 0
  /\ updateCalls = <<>>
  /\ stopSnapshot = NotStopped
  /\ uiOp = NoOp
  /\ uiCount = 0
  /\ uiSetId = FALSE
  /\ lastSession = NoSession

Init == InitClient /\ panel = PanelOff

\* a call of handleSendMessage has not returned
InFlight == pc \notin { "idle", "done" }

\* the two messages handleSendMessage appends before anything else
Submitted(msgs, n, content) ==
  msgs \o << Message(Id(n, "t"), "user", << Piece("text", << content.text >>) >>),
             Message(Id(n, "t+1"), "assistant", << Piece("text", <<"Starting">>) >>) >>


\* --------------------------------------------- handleSendMessage, streaming
\* the events go through onEvent, in order
Handle(events) ==
  LET st == onEvents(AppState, events, req.chatId)
  IN /\ messages' = st.messages
     /\ yamlFiles' = st.yamlFiles
     /\ currentChatId' = st.currentChatId

\* handleSendMessage(content, true) up to the first await: the user and log
\* messages, the log streams, and streamGenerateMessage's fetch
Submit(endpoint, nextPc, content) ==
  /\ ~isLoading
  /\ messages' = Submitted(messages, req.n + 1, content)
  /\ isLoading' = TRUE
  /\ logsOpen' = TRUE
  /\ req' = [n |-> req.n + 1, content |-> content, chatId |-> currentChatId,
             yamlFiles |-> yamlFiles,
             requestId |-> Null]
  /\ requests' = Append(requests,
                        Request(endpoint, content,
                                ChatIdParam(currentChatId, apiChatId)))
  /\ pc' = nextPc
  /\ UNCHANGED << yamlFiles, currentChatId, apiChatId, streamVars, attempts,
                  statusVars >>

HandleSendMessage(content) ==
  /\ pc = "idle"
  /\ Submit("/api/generate/stream", "stream_fetch", content)
  /\ UNCHANGED << calls, marks, backendYaml, terminalResult, extVars >>

\* handleSendMessage called again once its previous call has returned; what
\* the history keeps of the previous request is dropped
SubmitNext(endpoint, nextPc, content) ==
  /\ pc \in { "idle", "done" }
  /\ "overlapped" \notin marks
  /\ req.n + uiCount < MaxOperations
  /\ Submit(endpoint, nextPc, content)
  /\ calls' = <<>>
  /\ marks' = {}
  /\ backendYaml' = <<>>
  /\ terminalResult' = NoResult
  /\ logged' = <<>>
  /\ uiSetId' = FALSE
  /\ UNCHANGED << uiOp, uiCount, lastSession, panel >>

HandleSendMessageNext(content) ==
  SubmitNext("/api/generate/stream", "stream_fetch", content)

\* handleSendMessage called while its previous call has not returned, which
\* ChatInput allows whenever isLoading is false: the new call's messages and
\* request; the running call keeps its own closure, and what follows the new
\* call's first await lies beyond what is modelled
HandleSendMessageInFlight(content) ==
  /\ pc \notin { "idle", "done" }
  /\ ~isLoading
  /\ "overlapped" \notin marks
  /\ req.n + uiCount < MaxOperations
  /\ uiCount' = uiCount + 1
  /\ messages' = Submitted(messages, req.n + 1, content)
  /\ isLoading' = TRUE
  /\ requests' = Append(requests,
                        Request("/api/generate/stream", content,
                                ChatIdParam(currentChatId, apiChatId)))
  /\ marks' = marks \cup { "overlapped" }
  /\ UNCHANGED << yamlFiles, currentChatId, apiChatId, pc, req, logsOpen,
                  streamVars, attempts, calls, backendYaml, terminalResult,
                  logged, statusVars, uiOp, uiSetId, lastSession, panel >>

\* the catch block of streamGenerateMessage up to its await: onError, then
\* sendMessage(message, chatId) issues its request
CatchStreamError ==
  /\ calls' = Append(calls, OnErrorCall)
  /\ requests' = Append(requests,
                        Request("/api/supervisor", req.content,
                                ChatIdParam(req.chatId, apiChatId)))
  /\ pc' = "fallback_fetch"

\* fetch rejects, the status is not ok, or the response has no body
StreamFetchFail ==
  /\ pc = "stream_fetch"
  /\ \E kind \in { "network", "status", "nobody" } :
       marks' = marks \cup { "stream_failed", kind }
  /\ CatchStreamError
  /\ UNCHANGED << appVars, apiChatId, req, logsOpen, streamVars, attempts,
                  backendYaml, terminalResult >>
  /\ UNCHANGED << extVars, statusVars >>

\* the response arrives with one of these bodies, which is read from the start
StreamFetchOkFrom(bodies) ==
  /\ pc = "stream_fetch"
  /\ \E b \in bodies : body' = b
  /\ pos' = 0
  /\ buffer' = <<>>
  /\ pc' = "reading"
  /\ UNCHANGED << appVars, apiChatId, req, logsOpen, attempts, calls, requests,
                  marks, backendYaml, terminalResult >>
  /\ UNCHANGED << extVars, statusVars >>

StreamFetchOk == StreamFetchOkFrom(Bodies)

\* reader.read() returns the next n units; every complete line in the buffer
\* is decoded and handed to onEvent
ReadChunkSized(sizes) ==
  /\ pc = "reading"
  /\ \E n \in sizes :
       LET chunk == SubSeq(body, pos + 1, pos + n)
           drained == DrainLines(AppendChunk(buffer, chunk))
       IN /\ pos' = pos + n
          /\ buffer' = drained.rest
          /\ apiChatId' = ChatIdAfter(apiChatId, drained.events)
          /\ Handle(drained.events)
          /\ calls' = calls \o EventCalls(drained.events)
          /\ marks' = marks \cup EventMarks(drained.events)
          /\ backendYaml' = mergeAll(backendYaml, FilesOf(drained.events))
          /\ terminalResult' = LastResult(terminalResult, drained.events)
  /\ UNCHANGED << isLoading, pc, req, logsOpen, body, attempts, requests >>
  /\ UNCHANGED << extVars, statusVars >>

ReadChunk == ReadChunkSized(1 .. (Len(body) - pos))

\* reader.read() returns the units up to the end of a line or of the body
ReadLines ==
  ReadChunkSized({ n \in 1 .. (Len(body) - pos) :
                     body[pos + n].k = "nl" \/ pos + n = Len(body) })

\* reader.read() reports the end of the body: the unterminated last line,
\* then onComplete
ReadDone ==
  /\ pc = "reading"
  /\ pos = Len(body)
  /\ LET events == LastLineEvents(buffer)
     IN /\ Handle(events)
        /\ calls' = (calls \o EventCalls(events)) \o << OnCompleteCall >>
        /\ marks' = marks \cup EventMarks(events) \cup { "stream_ended" }
        /\ backendYaml' = mergeAll(backendYaml, FilesOf(events))
        /\ terminalResult' = LastResult(terminalResult, events)
  /\ isLoading' = FALSE
  /\ logsOpen' = FALSE
  /\ pc' = "done"
  /\ UNCHANGED << apiChatId, req, streamVars, attempts, requests >>
  /\ UNCHANGED << extVars, statusVars >>

\* reader.read() rejects: the connection broke
ReadFail ==
  /\ pc = "reading"
  /\ marks' = marks \cup { "stream_failed", "broken" }
  /\ CatchStreamError
  /\ UNCHANGED << appVars, apiChatId, req, logsOpen, streamVars, attempts,
                  backendYaml, terminalResult >>
  /\ UNCHANGED << extVars, statusVars >>

\* the rest of the catch block ending in its inner catch: the final event is
\* handed over but onComplete is not called
AfterFallbackSwallowed(fallback) ==
  LET events == << Head(FallbackEvents(fallback)) >>
  IN /\ Handle(events)
     /\ calls' = calls \o EventCalls(events)
     /\ pc' = "done"
     /\ UNCHANGED << isLoading, logsOpen >>

\* the rest of the catch block, once sendMessage has returned fallback
AfterFallback(fallback) ==
  LET events == FallbackEvents(fallback)
  IN /\ Handle(events)
     /\ calls' = (calls \o EventCalls(events)) \o << OnCompleteCall >>
     /\ isLoading' = FALSE
     /\ logsOpen' = FALSE
     /\ pc' = "done"

\* sendMessage's request succeeds with the backend's result
FallbackOk ==
  /\ pc = "fallback_fetch"
  /\ \E data \in TerminalResults :
       /\ apiChatId' = data.chat_id
       /\ AfterFallback(ChatResponseOf(data))
       /\ backendYaml' = mergeAll(backendYaml, data.yaml_files)
       /\ terminalResult' = data
  /\ marks' = marks \cup { "fallback_ok" }
  /\ UNCHANGED << req, streamVars, attempts, requests >>
  /\ UNCHANGED << extVars, statusVars >>

\* sendMessage's request fails: it returns getFallbackResponse(message)
FallbackFail ==
  /\ pc = "fallback_fetch"
  /\ AfterFallback(getFallbackResponse(req.content))
  /\ marks' = marks \cup { "fallback_failed" }
  /\ UNCHANGED << apiChatId, req, streamVars, attempts, requests, backendYaml,
                  terminalResult >>
  /\ UNCHANGED << extVars, statusVars >>

\* ------------------------------------------------------------ log streams
\* an EventSource message arrives on one of the two log streams opened by
\* handleSendMessage and is handed to its handler
LogLine ==
  /\ logsOpen
  /\ Len(logged) < MaxLogLines
  /\ \E data \in LogData \cup OtherRequestLogData :
       /\ messages' = onLogData(messages, data)
       /\ logged' = Append(logged, data)
  /\ UNCHANGED << yamlFiles, isLoading, currentChatId, apiChatId, pc, req, logsOpen,
                  streamVars, attempts, calls, requests, marks, backendYaml,
                  terminalResult, statusVars, uiVars >>

StreamFetchOkLogs == StreamFetchOkFrom(LogBodies)

\* ------------------------------------- handleSendMessage, useStreaming false
\* the catch block of handleSendMessage, with what follows it
Caught ==
  /\ messages' = onCaught(messages)
  /\ isLoading' = FALSE
  /\ logsOpen' = FALSE
  /\ pc' = "done"

\* handleSendMessage(content, false) up to its await
HandleSendMessageBatch(content) ==
  /\ pc = "idle"
  /\ Submit("sendGenerateMessage", "batch_fetch", content)
  /\ UNCHANGED << calls, marks, backendYaml, terminalResult, extVars >>

HandleSendMessageBatchNext(content) ==
  SubmitNext("sendGenerateMessage", "batch_fetch", content)

\* what apiService.sendGenerateMessage makes of the backend's reply: a
\* ChatResponse, as sendMessage and getAsyncResult build it
sendGenerateMessageResult(data) == ChatResponseOf(data)

\* apiService.sendGenerateMessage resolves with a ChatResponse
BatchOk ==
  /\ pc = "batch_fetch"
  /\ \E data \in TerminalResults :
       LET response == sendGenerateMessageResult(data)
       IN /\ yamlFiles' = mergeAll(yamlFiles, response.yaml_files)
          /\ messages' = Append(messages,
                                Message(FinalId, "assistant",
                                        << Piece("text", response.response.raw) >>))
          /\ currentChatId' = IF response.chat_id # req.chatId
                              THEN response.chat_id ELSE currentChatId
          /\ apiChatId' = data.chat_id
          /\ backendYaml' = mergeAll(backendYaml, data.yaml_files)
          /\ terminalResult' = data
  /\ isLoading' = FALSE
  /\ logsOpen' = FALSE
  /\ pc' = "done"
  /\ marks' = marks \cup { "batch_ok" }
  /\ UNCHANGED << req, streamVars, attempts, calls, requests >>
  /\ UNCHANGED << extVars, statusVars >>

\* apiService.sendGenerateMessage throws
BatchThrow ==
  /\ pc = "batch_fetch"
  /\ Caught
  /\ marks' = marks \cup { "thrown" }
  /\ UNCHANGED << yamlFiles, currentChatId, apiChatId, req, streamVars, attempts,
                  calls, requests, backendYaml, terminalResult >>
  /\ UNCHANGED << extVars, statusVars >>

\* ------------------------------------- handleSendMessage, polling variant
PollFinalId == Id(req.n, "t'+1")

\* yamlFiles.map(file => the file of that name in the response, if any),
\* over the yamlFiles the handler closed over
updatedYamlFiles(files, apiFiles) ==
  [i \in DOMAIN files |->
     IF \E j \in DOMAIN apiFiles : apiFiles[j].name = files[i].name
     THEN LET j == CHOOSE j \in DOMAIN apiFiles :
                     /\ apiFiles[j].name = files[i].name
                     /\ \A k \in 1 .. (j - 1) : apiFiles[k].name # files[i].name
          IN [files[i] EXCEPT !.content = apiFiles[j].content]
     ELSE files[i]]

\* handleSendMessage(content) up to its await: sendMessageAsync's request
HandleSendMessagePoll(content) ==
  /\ pc = "idle"
  /\ ~isLoading
  /\ messages' = Submitted(messages, req.n + 1, content)
  /\ isLoading' = TRUE
  /\ req' = [n |-> req.n + 1, content |-> content, chatId |-> currentChatId,
             yamlFiles |-> yamlFiles,
             requestId |-> Null]
  /\ requests' = Append(requests,
                        Request("/api/supervisor-async", content,
                                ChatIdParam(currentChatId, apiChatId)))
  /\ pc' = "poll_submit"
  /\ UNCHANGED << yamlFiles, currentChatId, apiChatId, logsOpen, streamVars,
                  attempts, calls, marks, backendYaml, terminalResult >>
  /\ UNCHANGED << extVars, statusVars >>

\* ------------------------- startStatusPolling, as the polling variant uses it
\* the k-th status update the backend records; its message is k tokens long
RECURSIVE UpdateMessage(_)
UpdateMessage(k) == IF k = 0 THEN <<>> ELSE Append(UpdateMessage(k - 1), "m")

Update(k) == [message |-> UpdateMessage(k)]

\* the onUpdate the handler passes: every update's message is appended to the
\* log message
RECURSIVE onUpdate(_, _)
onUpdate(msgs, updates) ==
  IF updates = <<>> THEN msgs
  ELSE onUpdate(appendToLog(msgs, assistantLogId, Piece("update", Head(updates).message)),
                Tail(updates))

\* startStatusPolling: isPolling is set and poll() issues its first fetch
StartStatusPolling ==
  /\ isPolling' = TRUE
  /\ statusPc' = "fetching"
  /\ statusFetches' = statusFetches + 1
  /\ UNCHANGED << stopTimer, serverUpdates, updateCalls, stopSnapshot >>

\* the function startStatusPolling returned is called
StopStatusPolling ==
  /\ isPolling' = FALSE
  /\ stopSnapshot' = IF stopSnapshot.called THEN stopSnapshot
                     ELSE [called |-> TRUE, fetches |-> statusFetches,
                           calls |-> Len(updateCalls)]

\* the backend records one more status update for the running request
BackendStatus ==
  /\ pc = "poll_wait"
  /\ Len(serverUpdates) < MaxUpdates
  /\ serverUpdates' = Append(serverUpdates, Update(Len(serverUpdates) + 1))
  /\ UNCHANGED << appVars, apiChatId, pc, req, logsOpen, streamVars, attempts, calls,
                  requests, marks, backendYaml, terminalResult, extVars, isPolling,
                  statusPc, stopTimer, statusFetches, updateCalls, stopSnapshot >>

\* getStatusUpdates returns: everything recorded so far, or nothing when the
\* fetch failed; a non-empty answer goes to onUpdate, and the next poll is
\* scheduled if isPolling still holds
StatusFetchReturn ==
  /\ statusPc = "fetching"
  /\ \E updates \in { serverUpdates, <<>> } :
       IF updates # <<>>
       THEN /\ messages' = onUpdate(messages, updates)
            /\ updateCalls' = Append(updateCalls, updates)
       ELSE UNCHANGED << messages, updateCalls >>
  /\ statusPc' = IF isPolling THEN "timer" ELSE "ended"
  /\ UNCHANGED << yamlFiles, isLoading, currentChatId, apiChatId, pc, req, logsOpen,
                  streamVars, attempts, calls, requests, marks, backendYaml,
                  terminalResult, extVars, isPolling, stopTimer, serverUpdates,
                  statusFetches, stopSnapshot >>

\* the 100 ms timer runs poll(): it returns at once when polling was stopped,
\* and issues the next fetch otherwise
StatusTimer ==
  /\ statusPc = "timer"
  /\ IF isPolling
     THEN /\ statusFetches < MaxStatusFetches
          /\ statusPc' = "fetching"
          /\ statusFetches' = statusFetches + 1
     ELSE /\ statusPc' = "ended"
          /\ UNCHANGED statusFetches
  /\ UNCHANGED << appVars, apiChatId, pc, req, logsOpen, streamVars, attempts, calls,
                  requests, marks, backendYaml, terminalResult, extVars, isPolling,
                  stopTimer, serverUpdates, updateCalls, stopSnapshot >>

\* one second after a successful result the handler's timer calls stop
StopTimer ==
  /\ stopTimer
  /\ stopTimer' = FALSE
  /\ StopStatusPolling
  /\ UNCHANGED << appVars, apiChatId, pc, req, logsOpen, streamVars, attempts, calls,
                  requests, marks, backendYaml, terminalResult, extVars, statusPc,
                  serverUpdates, statusFetches, updateCalls >>

\* the request id the backend gives an accepted job
RequestId == "q1"

\* the request getAsyncResult issues
ResultPoll(requestId) == [endpoint |-> "/api/supervisor-result", request_id |-> requestId]

\* continueWaiting going on for as long as there is no response
continueWaitingForever(n, hasResponse) == ~hasResponse

\* the condition of the wait loop: attempts < maxAttempts && !apiResponse
continueWaiting(n, hasResponse) == n < maxAttempts /\ ~hasResponse

\* sendMessageAsync returns the request id; the wait loop starts
PollSubmitOk ==
  /\ pc = "poll_submit"
  /\ attempts' = 0
  /\ req' = [req EXCEPT !.requestId = RequestId]
  /\ pc' = "poll_wait"
  /\ UNCHANGED << appVars, apiChatId, logsOpen, streamVars, calls, requests,
                  marks, backendYaml, terminalResult >>
  /\ StartStatusPolling
  /\ UNCHANGED extVars

\* sendMessageAsync throws
PollSubmitFail ==
  /\ pc = "poll_submit"
  /\ Caught
  /\ marks' = marks \cup { "thrown" }
  /\ UNCHANGED << yamlFiles, currentChatId, apiChatId, req, streamVars, attempts,
                  calls, requests, backendYaml, terminalResult >>
  /\ UNCHANGED << extVars, statusVars >>

\* getAsyncResult returns null (status processing) and the loop goes on
PollProcessing ==
  /\ pc = "poll_wait"
  /\ continueWaiting(attempts + 1, FALSE)
  /\ attempts' = attempts + 1
  /\ requests' = Append(requests, ResultPoll(req.requestId))
  /\ UNCHANGED << appVars, apiChatId, pc, req, logsOpen, streamVars, calls,
                  marks, backendYaml, terminalResult >>
  /\ UNCHANGED << extVars, statusVars >>

\* getAsyncResult returns null on the last attempt: the loop ends without a
\* response and the handler throws
PollTimeout ==
  /\ pc = "poll_wait"
  /\ ~continueWaiting(attempts + 1, FALSE)
  /\ attempts' = attempts + 1
  /\ requests' = Append(requests, ResultPoll(req.requestId))
  /\ Caught
  /\ marks' = marks \cup { "timeout" }
  /\ StopStatusPolling
  /\ UNCHANGED << yamlFiles, currentChatId, apiChatId, req, streamVars, calls,
                  backendYaml, terminalResult >>
  /\ UNCHANGED << extVars, statusPc, stopTimer, serverUpdates, statusFetches,
                  updateCalls >>

\* getAsyncResult throws: the status is not ok, or the payload is an error
PollError ==
  /\ pc = "poll_wait"
  /\ requests' = Append(requests, ResultPoll(req.requestId))
  /\ Caught
  /\ \E kind \in { "status", "payload" } : marks' = marks \cup { "poll_error", kind }
  /\ StopStatusPolling
  /\ UNCHANGED << yamlFiles, currentChatId, apiChatId, req, streamVars, attempts,
                  calls, backendYaml, terminalResult >>
  /\ UNCHANGED << extVars, statusPc, stopTimer, serverUpdates, statusFetches,
                  updateCalls >>

\* getAsyncResult returns the terminal payload
PollResult ==
  /\ pc = "poll_wait"
  /\ attempts' = attempts + 1
  /\ requests' = Append(requests, ResultPoll(req.requestId))
  /\ \E data \in TerminalResults :
       LET apiResponse == ChatResponseOf(data)
       IN /\ apiChatId' = data.chat_id
          /\ messages' = Append(messages,
                                Message(PollFinalId, "assistant",
                                        << Piece("text", parsedText(apiResponse.response)) >>))
          /\ yamlFiles' = updatedYamlFiles(req.yamlFiles, apiResponse.yaml_files)
          /\ currentChatId' = IF apiResponse.chat_id # req.chatId
                              THEN apiResponse.chat_id ELSE currentChatId
          /\ backendYaml' = mergeAll(backendYaml, data.yaml_files)
          /\ terminalResult' = data
  /\ isLoading' = FALSE
  /\ pc' = "done"
  /\ marks' = marks \cup { "poll_ok" }
  /\ stopTimer' = TRUE
  /\ UNCHANGED << req, logsOpen, streamVars, calls >>
  /\ UNCHANGED << extVars, isPolling, statusPc, serverUpdates, statusFetches,
                  updateCalls, stopSnapshot >>

\* ---------------------------------------------- session operations (App.tsx)
requestVars == << pc, req, logsOpen, streamVars, attempts, calls, requests, marks,
                 backendYaml, terminalResult, logged >>

\* the chats listed in the sidebar
SessionIds == { "c1" }

\* the id createChatSession returns
NewChatId == "n1"

\* what getChatSession returns: stored messages, and the stored documents
\* by name (one may be missing or empty, and other names may be stored)
StoredMessages ==
  << [id |-> "m1", role |-> "user", content |-> <<"old question">>],
     [id |-> "m2", role |-> "assistant", content |-> <<"old answer">>] >>

Sessions ==
  { [messages |-> StoredMessages,
     yaml_files |-> << File(AgentsName, DocA1), File(WorkflowName, DocW1) >>,
     found |-> TRUE],
    [messages |-> <<>>,
     yaml_files |-> << File(AgentsName, <<>>), File("other.yaml", DocA2) >>,
     found |-> TRUE] }

\* session.yaml_files[name]: the stored text, empty when there is none
StoredYaml(session, name) ==
  IF \E i \in DOMAIN session.yaml_files : session.yaml_files[i].name = name
  THEN session.yaml_files[CHOOSE i \in DOMAIN session.yaml_files :
                            session.yaml_files[i].name = name].content
  ELSE <<>>

\* sessionYamlFiles listing only the documents the session stores
sessionYamlFilesAsStored(session) == session.yaml_files

\* loadChatSession: both files, each with the stored text or, when that is
\* missing or empty, the placeholder
sessionYamlFiles(session) ==
  << File(AgentsName,
          IF StoredYaml(session, AgentsName) # <<>>
          THEN StoredYaml(session, AgentsName) ELSE PlaceholderAgents),
     File(WorkflowName,
          IF StoredYaml(session, WorkflowName) # <<>>
          THEN StoredYaml(session, WorkflowName) ELSE PlaceholderWorkflow) >>

\* loadChatSession: the stored messages as App messages
sessionMessages(session) ==
  [i \in DOMAIN session.messages |->
     Message(Id(0, session.messages[i].id), session.messages[i].role,
             << Piece("text", session.messages[i].content) >>)]

\* the files createNewChat resets to
NewChatYamlFiles ==
  << File(AgentsName, <<"# Agents configuration will be generated here",
                        "# This file will contain your Maestro agent definitions">>),
     File(WorkflowName, <<"# Workflow configuration will be generated here",
                          "# This file will contain your Maestro workflow definitions">>) >>

\* a sidebar operation starts when no other is waiting for its reply
StartOp(op, chatId) ==
  /\ uiOp = NoOp
  /\ req.n + uiCount < MaxOperations
  /\ uiCount' = uiCount + 1
  /\ uiOp' = [op |-> op, chatId |-> chatId, closureChatId |-> currentChatId]

\* loadChatSession(chatId) up to its await
LoadChatSession(chatId) ==
  /\ StartOp("load", chatId)
  /\ isLoading' = TRUE
  /\ UNCHANGED << messages, yamlFiles, currentChatId, apiChatId, requestVars,
                  statusVars, uiSetId, lastSession, panel >>

\* getChatSession returns a session, or null when there is none or the
\* request failed
LoadChatSessionDone ==
  /\ uiOp.op = "load"
  /\ \E session \in Sessions \cup { NoSession } :
       /\ lastSession' = session
       /\ IF session.found
          THEN /\ messages' = sessionMessages(session)
               /\ yamlFiles' = sessionYamlFiles(session)
               /\ currentChatId' = uiOp.chatId
               /\ apiChatId' = uiOp.chatId
               /\ uiSetId' = TRUE
          ELSE UNCHANGED << messages, yamlFiles, currentChatId, apiChatId, uiSetId >>
  /\ isLoading' = FALSE
  /\ uiOp' = NoOp
  /\ UNCHANGED << requestVars, statusVars, uiCount, panel >>

\* createNewChat up to its await: createChatSession's request
CreateNewChat ==
  /\ StartOp("create", Null)
  /\ UNCHANGED << appVars, apiChatId, requestVars, statusVars, uiSetId, lastSession, panel >>

\* createChatSession returns the new id: the App is reset to the new chat
CreateNewChatOk ==
  /\ uiOp.op = "create"
  /\ apiChatId' = NewChatId
  /\ currentChatId' = NewChatId
  /\ messages' = << WelcomeMessage >>
  /\ yamlFiles' = NewChatYamlFiles
  /\ uiSetId' = TRUE
  /\ uiOp' = NoOp
  /\ UNCHANGED << isLoading, requestVars, statusVars, uiCount, lastSession, panel >>

\* createChatSession throws; createNewChat only logs it
CreateNewChatFail ==
  /\ uiOp.op = "create"
  /\ uiOp' = NoOp
  /\ UNCHANGED << appVars, apiChatId, requestVars, statusVars, uiCount, uiSetId,
                  lastSession, panel >>

\* deleteChat(chatId) and deleteAllChats up to their await
DeleteChat(chatId) ==
  /\ StartOp("delete", chatId)
  /\ UNCHANGED << appVars, apiChatId, requestVars, statusVars, uiSetId, lastSession, panel >>

DeleteAllChats ==
  /\ StartOp("deleteAll", Null)
  /\ UNCHANGED << appVars, apiChatId, requestVars, statusVars, uiSetId, lastSession, panel >>

\* deleteChatSession succeeded: ApiService forgets the id if it was the
\* deleted one, and a new chat is created if the chat was the current one
\* when deleteChat was called
DeleteChatOk ==
  /\ uiOp.op = "delete"
  /\ apiChatId' = IF apiChatId = uiOp.chatId THEN Null ELSE apiChatId
  /\ uiOp' = IF uiOp.closureChatId = uiOp.chatId
             THEN [uiOp EXCEPT !.op = "create"]
             ELSE NoOp
  /\ UNCHANGED << appVars, requestVars, statusVars, uiCount, uiSetId, lastSession, panel >>

\* deleteAllChatSessions succeeded: ApiService forgets its id and a new
\* chat is created
DeleteAllChatsOk ==
  /\ uiOp.op = "deleteAll"
  /\ apiChatId' = Null
  /\ uiOp' = [uiOp EXCEPT !.op = "create"]
  /\ UNCHANGED << appVars, requestVars, statusVars, uiCount, uiSetId, lastSession, panel >>

\* the delete request failed: nothing changes
DeleteFail ==
  /\ uiOp.op \in { "delete", "deleteAll" }
  /\ uiOp' = NoOp
  /\ UNCHANGED << appVars, apiChatId, requestVars, statusVars, uiCount, uiSetId,
                  lastSession, panel >>

\* the texts saved from the editor of the YAML panel
EditedContents == { <<"edited">> }

\* handleDirectYamlEdit(fileName, newContent)
HandleDirectYamlEdit(fileName, newContent) ==
  /\ req.n + uiCount < MaxOperations
  /\ uiCount' = uiCount + 1
  /\ yamlFiles' = [i \in DOMAIN yamlFiles |->
                     IF yamlFiles[i].name = fileName
                     THEN [yamlFiles[i] EXCEPT !.content = newContent]
                     ELSE yamlFiles[i]]
  /\ UNCHANGED << messages, isLoading, currentChatId, apiChatId, requestVars,
                  statusVars, uiOp, uiSetId, lastSession, panel >>

SessionInstructions == { i \in Instructions : i.agent }

\* the bodies the backend sends in a session: a new chat's id first; a file
\* under another name; the final event alone, its line unterminated
SessionEventSeqs ==
  { << EvChatId("c1"), EvArtifact("agents_yaml", AgentsName, DocA2),
       FinalOf(ResultPlain), EvDone >>,
    << EvArtifact("workflow_yaml", "other.yaml", DocW1), EvError("boom"), EvDone >> }

SessionBodies ==
  { BodyOf([i \in DOMAIN es |-> Encode(es[i])], TRUE) : es \in SessionEventSeqs }
    \cup { BodyOf(<< Encode(FinalOf(ResultJson)) >>, FALSE) }

StreamFetchOkSession == StreamFetchOkFrom(SessionBodies)

NextStream ==
  \/ \E content \in Instructions : HandleSendMessage(content)
  \/ StreamFetchFail
  \/ StreamFetchOk
  \/ ReadChunk
  \/ ReadDone
  \/ ReadFail
  \/ FallbackOk
  \/ FallbackFail

NextBatch ==
  \/ \E content \in Instructions : HandleSendMessageBatch(content)
  \/ BatchOk
  \/ BatchThrow

NextPoll ==
  \/ \E content \in Instructions : HandleSendMessagePoll(content)
  \/ PollSubmitOk
  \/ PollSubmitFail
  \/ PollProcessing
  \/ PollTimeout
  \/ PollError
  \/ PollResult
  \/ BackendStatus
  \/ StatusFetchReturn
  \/ StatusTimer
  \/ StopTimer

Next == NextStream \/ NextBatch \/ NextPoll

Spec == Init /\ [][Next]_vars

\* a request with the log streams delivering while it runs
NextLogs ==
  \/ \E content \in Instructions : HandleSendMessage(content)
  \/ StreamFetchFail
  \/ StreamFetchOkLogs
  \/ ReadChunk
  \/ ReadDone
  \/ ReadFail
  \/ FallbackOk
  \/ FallbackFail
  \/ NextBatch
  \/ LogLine

SpecLogs == Init /\ [][NextLogs]_vars

\* handleSendMessage of App.tsx, with or without streaming, for the bodies
\* of SpecLogs read line by line
NextLive ==
  \/ \E content \in Instructions : HandleSendMessage(content)
  \/ StreamFetchFail
  \/ StreamFetchOkLogs
  \/ ReadLines
  \/ ReadDone
  \/ ReadFail
  \/ FallbackOk
  \/ FallbackFail
  \/ NextBatch

\* the steps in which a promise handleSendMessage waits for settles
Settles == InFlight /\ NextLive

\* every fetch and every read the handler waits for settles, and the event
\* loop then runs the continuation
SpecLive == Init /\ [][NextLive]_vars /\ WF_vars(Settles)

\* a session: instructions one after the other, with the sidebar and the
\* editor of the YAML panel used at any time
NextSession ==
  \/ \E content \in SessionInstructions : HandleSendMessageNext(content)
  \/ \E content \in SessionInstructions : HandleSendMessageBatchNext(content)
  \/ \E content \in SessionInstructions : HandleSendMessageInFlight(content)
  \/ StreamFetchFail
  \/ StreamFetchOkSession
  \/ ReadLines
  \/ ReadDone
  \/ ReadFail
  \/ FallbackOk
  \/ FallbackFail
  \/ BatchOk
  \/ BatchThrow
  \/ \E chatId \in SessionIds : LoadChatSession(chatId)
  \/ LoadChatSessionDone
  \/ CreateNewChat
  \/ CreateNewChatOk
  \/ CreateNewChatFail
  \/ \E chatId \in SessionIds : DeleteChat(chatId)
  \/ DeleteAllChats
  \/ DeleteChatOk
  \/ DeleteAllChatsOk
  \/ DeleteFail
  \/ \E i \in DOMAIN yamlFiles, newContent \in EditedContents :
       HandleDirectYamlEdit(yamlFiles[i].name, newContent)

SpecSession == Init /\ [][NextSession]_vars


\* -------------------------------------------- the YAML panel (YamlPanel.tsx)
\* what the panel is given: two texts to compare, a stored content to open
\* in the editor, or a text typed into the editor
PanelInputs ==
  { [PanelOff EXCEPT !.pc = "compare", !.oldText = o, !.newText = n] :
      o \in DiffTexts, n \in DiffTexts }
    \cup { [PanelOff EXCEPT !.pc = "stored", !.content = c] : c \in ContentTexts }
    \cup { [PanelOff EXCEPT !.pc = "typed", !.textarea = v] : v \in ContentTexts }

InitPanel == InitClient /\ panel \in PanelInputs

\* computeDiffLines(oldText, newText)
ComputeDiffLines ==
  /\ panel.pc = "compare"
  /\ \E diff \in diff_main(panel.oldText, panel.newText, "none") :
       panel' = [panel EXCEPT !.pc = "computed", !.lines = computeDiffLines(diff)]
  /\ UNCHANGED clientVars

\* renderDiff(oldContent, newContent)
RenderDiff ==
  /\ panel.pc = "compare"
  /\ \E diff \in diff_main(panel.oldText, panel.newText, "none") :
       panel' = [panel EXCEPT
                   !.pc = "rendered",
                   !.shown = renderDiff(panel.oldText, panel.newText, diff)]
  /\ UNCHANGED clientVars

\* handleYamlClick: the editor opens on the decoded content of the file,
\* the stored one or the one just saved
HandleYamlClick ==
  /\ \/ /\ panel.pc = "stored"
        /\ NotBlankText(panel.content)
        /\ panel' = [panel EXCEPT !.pc = "opened",
                                  !.textarea = decodeEscaped(panel.content)]
     \/ /\ panel.pc = "saved"
        /\ NotBlankText(panel.saved)
        /\ panel' = [panel EXCEPT !.pc = "reopened",
                                  !.reopened = decodeEscaped(panel.saved)]
  /\ UNCHANGED clientVars

\* Ctrl+S, Enter or the save button: onDirectEdit gets the encoded value of
\* the textarea
Save ==
  /\ panel.pc \in { "opened", "typed" }
  /\ panel' = [panel EXCEPT
                 !.pc = IF panel.pc = "typed" THEN "saved" ELSE "resaved",
                 !.saved = encodedContent(panel.textarea)]
  /\ UNCHANGED clientVars

NextPanel ==
  \/ ComputeDiffLines
  \/ RenderDiff
  \/ HandleYamlClick
  \/ Save

SpecPanel == InitPanel /\ [][NextPanel]_vars


\* ============================================================== properties
\* ------------------------------------------------- what the history shows
\* the events passed to onEvent so far, in order
RECURSIVE EventsIn(_)
EventsIn(cs) ==
  IF cs = <<>> THEN <<>>
  ELSE (IF Head(cs).h = "onEvent" THEN << Head(cs).ev >> ELSE <<>>) \o EventsIn(Tail(cs))

DeliveredEvents == EventsIn(calls)

CountWhere(seq, P(_)) == Cardinality({ i \in DOMAIN seq : P(seq[i]) })

IsOnError(c) == c.h = "onError"
IsFinal(e) == e.type = "final"
IsSupervisor(r) == r.endpoint = "/api/supervisor"

\* the index of the first onError call, 0 when there is none
FirstOnError ==
  IF \E i \in DOMAIN calls : IsOnError(calls[i])
  THEN CHOOSE i \in DOMAIN calls :
         IsOnError(calls[i]) /\ \A j \in 1 .. (i - 1) : ~IsOnError(calls[j])
  ELSE 0

\* the events delivered from the stream, before any fallback
StreamDelivered ==
  EventsIn(IF FirstOnError = 0 THEN calls ELSE SubSeq(calls, 1, FirstOnError - 1))

\* ---------------------------------------- a body read as a whole, by lines
RECURSIVE SplitLines(_)
SplitLines(text) ==
  IF \E i \in DOMAIN text : text[i].k = "nl"
  THEN LET i == CHOOSE i \in DOMAIN text :
                  text[i].k = "nl" /\ \A j \in 1 .. (i - 1) : text[j].k # "nl"
       IN << SubSeq(text, 1, i - 1) >> \o SplitLines(SubSeq(text, i + 1, Len(text)))
  ELSE << text >>

IsBlank(u) == u.k = "sp"
NotBlank(u) == ~IsBlank(u)
Unpadded(line) == SelectSeq(line, NotBlank)
EmptyLine(line) == Unpadded(line) = <<>>
Decodable(line) ==
  LET u == Unpadded(line)
  IN Len(u) = 2 /\ u[1].k = "open" /\ u[2].k = "close"

RECURSIVE EventsOfLines(_)
EventsOfLines(lines) ==
  IF lines = <<>> THEN <<>>
  ELSE (IF Decodable(Head(lines)) THEN << Unpadded(Head(lines))[1].ev >> ELSE <<>>)
         \o EventsOfLines(Tail(lines))

WellFormedBody(text) ==
  \A i \in DOMAIN SplitLines(text) :
    EmptyLine(SplitLines(text)[i]) \/ Decodable(SplitLines(text)[i])

\* the terminated lines among the units read so far
LinesRead == Front(SplitLines(SubSeq(body, 1, pos)))

StreamEnded == pc = "done" /\ "stream_ended" \in marks

\* C1: when the streaming request fails before a terminal event was
\* delivered, the same instruction is re-issued exactly once on the
\* non-streaming path, and the calls that follow onError are, in this order,
\* onEvent(final built from that path's result), onEvent(done), onComplete.
C1_FallbackSequence ==
  (/\ pc = "done"
   /\ "stream_failed" \in marks
   /\ \A i \in DOMAIN StreamDelivered : ~IsTerminal(StreamDelivered[i]))
  => /\ CountWhere(requests, IsSupervisor) = 1
     /\ Len(requests) = 2
     /\ requests[2].content = requests[1].content
     /\ CountWhere(calls, IsOnError) = 1
     /\ LET result == IF "fallback_ok" \in marks
                      THEN ChatResponseOf(terminalResult)
                      ELSE getFallbackResponse(requests[1].content)
        IN SubSeq(calls, FirstOnError + 1, Len(calls)) =
             << OnEventCall(EvFinal(result.response, result.yaml_files, result.chat_id)),
                OnEventCall(EvDone),
                OnCompleteCall >>

\* C1 witness: the connection broke after progress events had been
\* delivered, and the fallback has run to completion
C1_Witness ==
  /\ pc = "done"
  /\ "broken" \in marks
  /\ "fallback_ok" \in marks
  /\ Len(StreamDelivered) >= 2
  /\ \A i \in DOMAIN StreamDelivered : ~IsTerminal(StreamDelivered[i])


\* ---------------------------------------------------------------- artifacts
IsArtifact(e) == e.type \in { "agents_yaml", "workflow_yaml" }

\* the index in evs of the last artifact event for the name, 0 if none
LastArtifactIndex(evs, name) ==
  IF \E i \in DOMAIN evs : IsArtifact(evs[i]) /\ evs[i].file.name = name
  THEN CHOOSE i \in DOMAIN evs :
         /\ IsArtifact(evs[i]) /\ evs[i].file.name = name
         /\ \A j \in (i + 1) .. Len(evs) :
              ~(IsArtifact(evs[j]) /\ evs[j].file.name = name)
  ELSE 0

\* the contents yamlFiles holds under the name
ContentsOf(files, name) == { files[i].content : i \in { j \in DOMAIN files : files[j].name = name } }

\* C2: last-writer-wins: once the artifact events delivered so far are
\* processed, yamlFiles holds, for each name, exactly the content of the last
\* artifact event for that name (as long as no final event followed it)
C2_LastWriterWins ==
  \A name \in ArtifactNames :
    LET evs == DeliveredEvents
        last == LastArtifactIndex(evs, name)
    IN (last > 0 /\ \A j \in (last + 1) .. Len(evs) : ~IsFinal(evs[j]))
       => ContentsOf(yamlFiles, name) = { evs[last].file.content }

\* C2 witness: two artifact events for agents.yaml with different contents
\* were delivered and the stream ended
C2_Witness ==
  /\ StreamEnded
  /\ \E i, j \in DOMAIN DeliveredEvents :
       /\ i < j
       /\ IsArtifact(DeliveredEvents[i]) /\ IsArtifact(DeliveredEvents[j])
       /\ DeliveredEvents[i].file.name = AgentsName
       /\ DeliveredEvents[j].file.name = AgentsName
       /\ DeliveredEvents[i].file.content # DeliveredEvents[j].file.content
       /\ LastArtifactIndex(DeliveredEvents, AgentsName) = j
       /\ ContentsOf(yamlFiles, AgentsName) = { DeliveredEvents[j].file.content }

\* ------------------------------------------------------------------ decoding
\* C3: for a well-formed body, however it is cut into chunks, onEvent has
\* received exactly the events of the non-empty lines read so far, once each
\* and in line order; when the stream has ended, those of all its lines
C3_ChunkIndependentDelivery ==
  WellFormedBody(body) =>
    /\ pc = "reading" => DeliveredEvents = EventsOfLines(LinesRead)
    /\ StreamEnded => DeliveredEvents = EventsOfLines(SplitLines(body))

\* C3 witness: a chunk ended inside a line after an earlier event had been
\* delivered; the body is well-formed and has more to come
C3_Witness ==
  /\ pc = "reading"
  /\ WellFormedBody(body)
  /\ pos < Len(body)
  /\ Len(buffer) = 1 /\ buffer[1].k = "open"
  /\ Len(DeliveredEvents) >= 1

\* the lines of the body that end with a line break
TerminatedLines == Front(SplitLines(body))

\* C4: a terminated line that does not decode is skipped: when the stream
\* has ended every decodable line, also after such a line, has been
\* delivered in order, onError was never called and no fallback request
\* was issued
C4_BadLineSkipped ==
  (StreamEnded /\ \E i \in DOMAIN TerminatedLines :
                    ~EmptyLine(TerminatedLines[i]) /\ ~Decodable(TerminatedLines[i]))
  => /\ DeliveredEvents = EventsOfLines(SplitLines(body))
     /\ CountWhere(calls, IsOnError) = 0
     /\ CountWhere(requests, IsSupervisor) = 0
     /\ Len(requests) = 1

\* C4 witness: an undecodable line was followed by a decodable one, which
\* was delivered
C4_Witness ==
  /\ StreamEnded
  /\ \E i, j \in DOMAIN TerminatedLines :
       /\ i < j
       /\ ~EmptyLine(TerminatedLines[i]) /\ ~Decodable(TerminatedLines[i])
       /\ Decodable(TerminatedLines[j])
  /\ Len(DeliveredEvents) >= 1

\* the unterminated rest of the body
LastLine == Last(SplitLines(body))

\* C5: a non-empty unterminated last line is parsed at the end of the
\* stream: if it decodes its event is delivered after all earlier ones,
\* otherwise it is dropped; either way there is no onError, no fallback
\* request, and onComplete is the last call
C5_LastLine ==
  (StreamEnded /\ ~EmptyLine(LastLine))
  => /\ DeliveredEvents =
          EventsOfLines(TerminatedLines)
            \o (IF Decodable(LastLine) THEN << Unpadded(LastLine)[1].ev >> ELSE <<>>)
     /\ CountWhere(calls, IsOnError) = 0
     /\ CountWhere(requests, IsSupervisor) = 0
     /\ Last(calls) = OnCompleteCall

\* C5 witness: the last line was unterminated, decoded, and its event was
\* delivered after an earlier one
C5_Witness ==
  /\ StreamEnded
  /\ Decodable(LastLine)
  /\ Len(DeliveredEvents) >= 2
  /\ Last(DeliveredEvents) = Unpadded(LastLine)[1].ev
  /\ calls[Len(calls) - 1] = OnEventCall(Unpadded(LastLine)[1].ev)

\* C5 witness, the other case: the cut-off last line was dropped
C5_WitnessDropped ==
  /\ StreamEnded
  /\ ~EmptyLine(LastLine) /\ ~Decodable(LastLine)
  /\ Len(DeliveredEvents) >= 1


\* ------------------------------------------------------- terminal events
IsDoneEvent(e) == e.type = "done"

\* C6: per invocation at most one final event reaches the handler, nothing
\* but done follows it, and the fallback request is issued only when no
\* final or error event of the stream has been delivered
C6_SingleFinal ==
  LET evs == DeliveredEvents
  IN /\ CountWhere(evs, IsFinal) <= 1
     /\ \A i \in DOMAIN evs :
          IsFinal(evs[i]) => \A j \in (i + 1) .. Len(evs) : IsDoneEvent(evs[j])
     /\ CountWhere(requests, IsSupervisor) > 0
          => \A i \in DOMAIN StreamDelivered : ~IsTerminal(StreamDelivered[i])

\* the request went through the stream event handler and exactly one final
\* event, carrying the backend's terminal result, reached it
OneBackendFinal ==
  /\ pc = "done"
  /\ terminalResult # NoResult
  /\ marks \cap { "stream_ended", "fallback_ok" } # {}
  /\ "fallback_failed" \notin marks
  /\ CountWhere(DeliveredEvents, IsFinal) = 1

\* C7: transport equivalence: whichever path handed over the terminal
\* result, yamlFiles holds for every file of the result the content the
\* result carries and the appended assistant message is the parsed response
C7_TransportEquivalence ==
  OneBackendFinal =>
    /\ \A i \in DOMAIN terminalResult.yaml_files :
         ContentsOf(yamlFiles, terminalResult.yaml_files[i].name)
           = { terminalResult.yaml_files[i].content }
    /\ Last(messages) =
         Message(FinalId, "assistant",
                 << Piece("text", parsedText(terminalResult.response)) >>)

Failed == marks \cap { "error_event", "thrown", "poll_error", "timeout", "stream_failed" } # {}

\* C8: after a failure every artifact still holds its placeholder or the
\* content of the last payload received from the backend for it (as
\* received, or as normalised on receipt), never locally generated content
C8_NoRollback ==
  Failed =>
    \A i \in DOMAIN yamlFiles :
      \/ yamlFiles[i] \in { InitialYamlFiles[k] : k \in DOMAIN InitialYamlFiles }
      \/ \E received \in ContentsOf(backendYaml, yamlFiles[i].name) :
           yamlFiles[i].content \in { received, formatYamlContent(received) }

\* the pieces of user-visible error text in the message list
ErrorPieces ==
  { << i, j >> \in (DOMAIN messages) \X (1 .. 8) :
      /\ j \in DOMAIN messages[i].content
      /\ messages[i].content[j].kind \in { "error", "sorry" } }

\* C9: when the stream and the fallback request both fail, the user sees an
\* error and no final result is presented
C9_DoubleFailureSurfaced ==
  (pc = "done" /\ "stream_failed" \in marks /\ "fallback_failed" \in marks)
  => /\ ErrorPieces # {}
     /\ \A i \in DOMAIN messages : messages[i].id # FinalId

ExecutionFailed == marks \cap { "error_event", "thrown", "poll_error", "timeout" } # {}

C10_WitnessTimeout ==
  /\ pc = "done"
  /\ "timeout" \in marks
  /\ attempts = maxAttempts
  /\ Cardinality(ErrorPieces) = 1


\* ---------------------------------------------------------- progress output
IsStreamRequest == requests # <<>> /\ requests[1].endpoint = "/api/generate/stream"

IsStatusEvent(e) == e.type = "status"
IsAiOutput(e) == e.type = "ai_output"
ArtifactBearing(e) == IsArtifact(e) \/ IsFinal(e)
HasLine(data) == data.type = "log" /\ data.line # ""
IsStatusPiece(p) == p.kind = "status"
IsLinePiece(p) == p.kind = "line"
IsLogMessage(m) == m.id = assistantLogId

\* C11: progress output never determines artifact state. For a streaming
\* request, yamlFiles is what the artifact-bearing events delivered so far
\* make of the initial files, whatever status, ai_output and log-stream data
\* came in between; those show up only as pieces of the one live log
\* message, one piece each, every other message keeping its single text; and
\* after a final event that no artifact-bearing event followed, every file of
\* its payload is in yamlFiles with the payload's content.
C11_ProgressNeverDeterminesArtifacts ==
  IsStreamRequest =>
    LET evs == DeliveredEvents
        logs == SelectSeq(messages, IsLogMessage)
    IN /\ yamlFiles = mergeAll(InitialYamlFiles, FilesOf(evs))
       /\ Len(logs) = 1
       /\ CountWhere(logs[1].content, IsStatusPiece) = CountWhere(evs, IsStatusEvent)
       /\ CountWhere(logs[1].content, IsLinePiece) =
            CountWhere(evs, IsAiOutput) + CountWhere(logged, HasLine)
       /\ \A i \in DOMAIN messages :
            ~IsLogMessage(messages[i]) =>
              /\ Len(messages[i].content) = 1
              /\ messages[i].content[1].kind = "text"
       /\ \A i \in DOMAIN evs :
            (IsFinal(evs[i]) /\ \A j \in (i + 1) .. Len(evs) : ~ArtifactBearing(evs[j]))
            => \A k \in DOMAIN evs[i].yaml_files :
                 ContentsOf(yamlFiles, evs[i].yaml_files[k].name)
                   = { evs[i].yaml_files[k].content }

\* C11 witness: the stream ended after a repeated status event, an artifact
\* event and a final event replacing that artifact's content, while both log
\* streams delivered a line
C11_Witness ==
  /\ StreamEnded
  /\ IsStreamRequest
  /\ CountWhere(DeliveredEvents, IsStatusEvent) = 2
  /\ CountWhere(DeliveredEvents, IsArtifact) = 1
  /\ CountWhere(DeliveredEvents, IsFinal) = 1
  /\ { logged[i].source : i \in { j \in DOMAIN logged : HasLine(logged[j]) } }
       = { "agents", "workflow" }
  /\ ContentsOf(yamlFiles, AgentsName) = { DocA1 }
  /\ \E i \in DOMAIN messages :
       IsLogMessage(messages[i]) /\ Len(messages[i].content) = 6


\* ------------------------------------------------------------ the wait loop
IsResultPoll(r) == r.endpoint = "/api/supervisor-result"

\* C12: the wait loop ends: at most 120 result polls are issued, all for the
\* request id the submission returned, the loop is never left waiting after
\* the 120th, and when all 120 reported processing the handler raises its
\* error (shown once, loading over) having sent nothing but the submission
\* and the 120 polls: no request cancels the job.
C12_PollCeiling ==
  /\ CountWhere(requests, IsResultPoll) <= maxAttempts
  /\ \A i \in DOMAIN requests :
       IsResultPoll(requests[i]) => requests[i].request_id = RequestId
  /\ pc = "poll_wait" => CountWhere(requests, IsResultPoll) < maxAttempts
  /\ "timeout" \in marks =>
       /\ pc = "done"
       /\ ~isLoading
       /\ Cardinality(ErrorPieces) = 1
       /\ CountWhere(requests, IsResultPoll) = maxAttempts
       /\ Len(requests) = maxAttempts + 1
       /\ requests[1].endpoint = "/api/supervisor-async"
       /\ \A i \in 2 .. Len(requests) : IsResultPoll(requests[i])

\* C12 witness: the 120th poll reported processing and the handler gave up
C12_Witness ==
  /\ pc = "done"
  /\ "timeout" \in marks
  /\ attempts = maxAttempts
  /\ CountWhere(requests, IsResultPoll) = maxAttempts
  /\ requests[Len(requests)] = ResultPoll(RequestId)

\* what the catch block shows when getAsyncResult throws for an error payload
ShownOnThrow == Last(onCaught(<< Message(assistantLogId, "assistant", <<>>) >>)[1].content)

\* C13: what the user is shown after 120 polls without a terminal result
\* differs from what is shown when a poll returns an error payload
C13_TimeoutDistinct ==
  (pc = "done" /\ "timeout" \in marks)
  => \A ij \in ErrorPieces : messages[ij[1]].content[ij[2]] # ShownOnThrow


\* ------------------------------------------------------------ status polling
\* the updates passed to onUpdate by the i-th call
PassedIn(i) == { updateCalls[i][k] : k \in DOMAIN updateCalls[i] }

\* C14: across the polls of one polling session no status update is passed
\* to onUpdate twice: the calls of onUpdate have no update in common
C14_NoRedelivery ==
  \A i, j \in DOMAIN updateCalls : i < j => PassedIn(i) \cap PassedIn(j) = {}

\* C15: once stop has been called no further status fetch is issued and
\* onUpdate is not called again, also when a fetch was in flight at that
\* moment
C15_StopHalts ==
  stopSnapshot.called =>
    /\ statusFetches = stopSnapshot.fetches
    /\ Len(updateCalls) = stopSnapshot.calls


\* ------------------------------------------------------------- message list
IsUserMessage(m) == m.role = "user"
IsFinalMessage(m) == m.id \in { FinalId, PollFinalId }

\* C16: a submitted instruction adds exactly one user message, and at most
\* one assistant message for its terminal event: exactly one once a final
\* event was handled, however many times a final reached the handler
C16_OneMessagePerTerminal ==
  requests # <<>> =>
    /\ CountWhere(messages, IsUserMessage) = 1
    /\ CountWhere(messages, IsFinalMessage) <= 1
    /\ CountWhere(DeliveredEvents, IsFinal) >= 1
         => CountWhere(messages, IsFinalMessage) = 1


\* content c extended at its end
IsPrefix(c, d) == Len(c) <= Len(d) /\ SubSeq(d, 1, Len(c)) = c

\* C17: a step never removes or reorders messages, and an existing message
\* changes only by text appended to its content, and only when it is the
\* last message of the list
C17_AppendOnly ==
  [][/\ Len(messages') >= Len(messages)
     /\ \A i \in DOMAIN messages :
          \/ messages'[i] = messages[i]
          \/ /\ i = Len(messages)
             /\ messages'[i].id = messages[i].id
             /\ messages'[i].role = messages[i].role
             /\ IsPrefix(messages[i].content, messages'[i].content)]_vars


\* ---------------------------------------------------------- chat identity
CarriesId(e) == e.type \in { "chat_id", "final" } /\ e.chat_id # Null

\* the ids carried by the chat_id and final events handed to onEvent
DeliveredIds == { DeliveredEvents[i].chat_id :
                    i \in { j \in DOMAIN DeliveredEvents : CarriesId(DeliveredEvents[j]) } }

\* the step submits the next instruction of the session
SubmitsNext ==
  /\ req'.n = req.n + 1
  /\ Len(requests') = Len(requests) + 1

\* the last instruction was submitted with no chat id and no sidebar
\* operation has chosen another chat since
SubmittedWithoutId == req.n >= 1 /\ req.chatId = Null /\ ~uiSetId

\* C18: when the request of an instruction submitted with no chat id was
\* handed a chat_id or final event carrying id C, the client holds C and the
\* next instruction it submits carries chat_id = C
C18_ChatIdContinuity ==
  [][(SubmitsNext /\ SubmittedWithoutId)
       => \A C \in DeliveredIds :
            /\ currentChatId = C
            /\ Last(requests').chat_id = C]_vars


\* ------------------------------------------------------------- artifact set
HasEntry(files, name) == \E i \in DOMAIN files : files[i].name = name
HasBothNames(files) == \A name \in ArtifactNames : HasEntry(files, name)

\* the content of the first entry of that name, the one the panel shows
ShownContent(files, name) ==
  files[CHOOSE i \in DOMAIN files :
          /\ files[i].name = name
          /\ \A j \in DOMAIN files : files[j].name = name => i <= j].content

PlaceholderOf(name) ==
  IF name = AgentsName THEN PlaceholderAgents ELSE PlaceholderWorkflow

\* the step is loadChatSession receiving a stored session
LoadsSession == uiOp.op = "load" /\ uiOp' = NoOp /\ lastSession'.found

\* C19: yamlFiles has an entry for agents.yaml and one for workflow.yaml in
\* every state, whatever is sent, received, loaded, created, deleted or
\* edited; and a session loaded without content for a name shows that
\* name's placeholder, with content it shows the stored content
C19_BothNamesPresent ==
  [][/\ HasBothNames(yamlFiles)
     /\ HasBothNames(yamlFiles')
     /\ LoadsSession =>
          \A name \in ArtifactNames :
            ShownContent(yamlFiles', name) =
              IF StoredYaml(lastSession', name) = <<>>
              THEN PlaceholderOf(name)
              ELSE StoredYaml(lastSession', name)]_vars

\* a session storing nothing for workflow.yaml was loaded after an
\* instruction was sent, and the panel shows the placeholder for it
C19_Witness ==
  /\ requests # <<>>
  /\ uiOp = NoOp
  /\ lastSession.found
  /\ StoredYaml(lastSession, WorkflowName) = <<>>
  /\ HasBothNames(yamlFiles)
  /\ ShownContent(yamlFiles, WorkflowName) = PlaceholderWorkflow

\* C20: yamlFiles never holds an entry named other than agents.yaml or
\* workflow.yaml, whatever the file names in the events and payloads
C20_ClosedArtifactSet ==
  \A i \in DOMAIN yamlFiles : yamlFiles[i].name \in ArtifactNames


\* ------------------------------------------------------------- raw output
\* the texts of the raw-output lines in the request's log message
LogMessageLines ==
  UNION { { messages[i].content[j].text :
              j \in { k \in DOMAIN messages[i].content :
                        messages[i].content[k].kind = "line" } } :
            i \in { n \in DOMAIN messages : messages[n].id = assistantLogId } }

\* C21: the log message of request R holds only raw-output lines written by
\* R: no line that a run of another client wrote to the same source while
\* R's subscriptions were open is appended to it
C21_RawOutputScoped ==
  \A i \in DOMAIN logged :
    logged[i].request # "R" => << logged[i].line >> \notin LogMessageLines


\* ------------------------------------------------------------ the YAML panel
NotDeleted(line) == line.type # "delete"
NotInserted(line) == line.type # "insert"
TextsOf(lines) == [i \in DOMAIN lines |-> lines[i].text]

\* the lines of a text, a line break at its end not starting another line
LinesOf(text) == IF text = <<>> THEN <<>> ELSE splitOf(text)

\* C22: the entries computeDiffLines(old, new) returns reconstruct both
\* texts line by line: the texts of the entries that are not delete are the
\* lines of new, in order, and the texts of those that are not insert are
\* the lines of old
C22_DiffReconstructs ==
  panel.pc = "computed" =>
    /\ TextsOf(SelectSeq(panel.lines, NotDeleted)) = LinesOf(panel.newText)
    /\ TextsOf(SelectSeq(panel.lines, NotInserted)) = LinesOf(panel.oldText)

\* renderDiff was applied to an old text equal to the new one or empty
NothingToCompare ==
  /\ panel.pc = "rendered"
  /\ (panel.oldText = panel.newText \/ panel.oldText = <<>>)

\* C23: when old equals new or old is empty, what renderDiff shows for the
\* artifact has no insert and no delete entry: every row is presented as
\* unchanged, and the rows are all the lines of new as the panel decodes them
C23_NothingToCompareAllEqual ==
  NothingToCompare =>
    /\ \A i \in DOMAIN panel.shown.rows : panel.shown.rows[i].type = "equal"
    /\ TextsOf(panel.shown.rows) = splitNl(decodeEscaped(panel.newText))

\* renderDiff has shown a new text of two lines against an empty old text
C23_Witness ==
  /\ NothingToCompare
  /\ panel.oldText = <<>>
  /\ panel.newText = << "a", "nl", "n" >>
  /\ panel.shown.rows = << DiffLine("equal", << "a" >>), DiffLine("equal", << "n" >>) >>

\* C24: the encoding on save and decodeEscaped are exact inverses: opening
\* the editor on what was saved gives back the text that was typed, and
\* saving what the editor shows for a stored content gives back that content
C24_EncodeDecodeInverse ==
  /\ panel.pc = "reopened" => panel.reopened = panel.textarea
  /\ panel.pc = "resaved" => panel.saved = panel.content


\* --------------------------------------------------------- requests in flight
\* the step is handleSendMessage issuing the request of an instruction
SubmitsInstruction ==
  /\ Len(requests') = Len(requests) + 1
  /\ Last(requests').endpoint \in
       { "/api/generate/stream", "sendGenerateMessage", "/api/supervisor-async" }

\* C25: while a request is in flight isLoading stays true, so the chat
\* input stays disabled, and no step submits another instruction, whatever
\* sidebar operations run in between
C25_OneRequestInFlight ==
  [][/\ InFlight' => isLoading'
     /\ SubmitsInstruction => ~InFlight]_vars

\* another chat session was loaded or created while the request, submitted
\* before, is still in flight
SwitchedInFlight == InFlight /\ uiSetId

\* the step belongs to the request: no sidebar operation starts or returns
\* and nothing is saved or submitted by the user
RequestStep == uiOp' = uiOp /\ uiCount' = uiCount

\* C26: once the user has loaded or created another chat session while a
\* request is in flight, the later steps of that request (its events, its
\* completion, its failure) change neither the messages nor the yamlFiles
\* nor the current chat id shown for the session now selected
C26_EventsStayInSession ==
  [][(SwitchedInFlight /\ RequestStep)
       => UNCHANGED << messages, yamlFiles, currentChatId >>]_vars

\* C27: every call of handleSendMessage eventually has set isLoading back
\* to false and closed both log streams, whether the stream completed, the
\* fallback was used, streaming was off, or the request threw
C27_EventuallyReset ==
  InFlight ~> (pc = "done" /\ ~isLoading /\ ~logsOpen)

\* the stream broke, the fallback request answered, and the call has
\* returned with isLoading false and the log streams closed
C27_Witness ==
  /\ pc = "done"
  /\ { "broken", "fallback_ok" } \subseteq marks
  /\ ~isLoading
  /\ ~logsOpen

\* no generation request and no sidebar request is waiting for its reply
NoRequestInFlight == ~InFlight /\ uiOp = NoOp

\* C28: whenever no request is in flight, the chat id of the App
\* (currentChatId) equals the chat id of the ApiService, after any sequence
\* of send, stream, fallback, load, create and delete operations
C28_ChatIdAgreement == NoRequestInFlight => currentChatId = apiChatId

\* the ids the backend issues: those of the chats in the history list, the
\* one createChatSession returns, and those its events and results carry
IssuedChatIds ==
  SessionIds \cup { NewChatId }
    \cup { r.chat_id : r \in TerminalResults }
    \cup { e.chat_id : e \in { e \in ProgressEvents : e.type = "chat_id" } }

\* C29: the chat_id sent with a request is absent or an id the backend has
\* issued; an id made up by the client is never sent
C29_SentIdsIssued ==
  \A i \in DOMAIN requests : requests[i].chat_id \in { Null } \cup IssuedChatIds

====
